---- MODULE Spec2Model ----
(***************************************************************************)
(* cg011235/autocomplete: the prefix index (internal/trie), the older      *)
(* index variant with Search, and the /api/v1 request handlers with their  *)
(* read-through cache (internal/handlers/v1.go).                           *)
(*                                                                         *)
(* A string is a sequence of code points (Go ranges over a string rune by  *)
(* rune); Utf8 gives its bytes where the code indexes bytes.  A Trie is a  *)
(* function from the code-point path of each node (the root is <<>>) to    *)
(* the node's IsWord flag: the children of a node are the paths one code   *)
(* point longer, which is the map[rune]*Node of the source.                *)
(*                                                                         *)
(* Insert, Delete and Exists hold the Trie's mutex from entry to return    *)
(* and are one step each in SpecTrie, SpecSearch, SpecSeq and Spec.  A     *)
(* handler is a sequence of steps, one per call on the index or the cache, *)
(* so that the handlers of requests in flight interleave between those     *)
(* calls.  SpecMu takes the three calls apart, one step per Lock, loop     *)
(* iteration and Unlock, for goroutines that call them concurrently.       *)
(* SpecFine takes the handlers apart further: the load of the pointer      *)
(* trieV1, the Lock and the body of the call are steps of their own, and   *)
(* CollectWords, which takes no mutex, enters one node per step.           *)
(***************************************************************************)
EXTENDS Integers, Sequences, FiniteSets, TLC

VARIABLES
    t,          \* the Trie a library caller works on (receiver of Insert, ...)
    present,    \* history: the words inserted into t and not deleted since
    last,       \* history: the last library call on t, the index before it (before)
                \* and what it returned
    trieV1,     \* handlers: var trieV1
    cacheV1,    \* handlers: var cacheV1 (key -> cached []string)
    pc,         \* per request slot: where its handler stands
    req,        \* per request slot: the decoded request
    results,    \* per request slot: ListWordsHandlerV1's results
    count,      \* per request slot: ListWordsHandlerV1's count
    idx,        \* per request slot: AddWordsHandlerV1's position in request.Words
    resp,       \* the response last written, with its request
    solo,       \* history, per slot: the running request has overlapped no other
    prev,       \* history: the request answered before resp's, if an add request
    deleted,    \* history: words a delete request removed, not added since
    nReqs,      \* number of requests received so far
    mu,         \* t.mu, the sync.RWMutex of the Trie t
    gor,        \* per goroutine calling t.Insert/Delete/Exists: where the call stands
    muV1,       \* trieV1.mu, the sync.RWMutex of the Trie trieV1 points to
    loc,        \* per request slot: the handler's pointers into the index
    limiter,    \* middleware: var limiter, the tokens the rate limiter holds
    conn        \* the HTTP request the router served last and what answered it

libVars == <<t, present, last>>
srvVars == <<trieV1, cacheV1, pc, req, results, count, idx, resp, solo, prev, deleted, nReqs>>
conVars == <<mu, gor>>
fineVars == <<muV1, loc>>
webVars == <<limiter, conn>>
\* What the library callers of SpecTrie and SpecSearch leave alone, what the
\* request handlers of Spec and SpecSeq leave alone, and what those of
\* SpecFine leave alone.
notLib == <<srvVars, conVars, fineVars, webVars>>
notSrv == <<libVars, conVars, fineVars, webVars>>
notFine == <<libVars, conVars, webVars>>
vars == <<t, present, last, trieV1, cacheV1, pc, req, results, count, idx, resp, solo, prev,
          deleted, nReqs, mu, gor, muV1, loc, limiter, conn>>

(***************************************************************************)
(* Strings                                                                 *)
(***************************************************************************)
\* Code points used: 'a' 97, 'b' 98, 'A' 65, U+00E9 233 (two bytes in UTF-8).
EmptyStr == <<>>

\* The words library callers pass to Insert/Delete/Exists/Search.
LibWords ==
    { <<>>, <<97>>, <<98>>, <<97, 97>>, <<97, 98>>, <<97, 98, 97>>,
      <<233>>, <<97, 233>> }

\* The UTF-8 bytes of one code point (Go strings are UTF-8 byte sequences).
Utf8Rune(cp) ==
    IF cp < 128 THEN <<cp>>
    ELSE IF cp < 2048 THEN <<192 + (cp \div 64), 128 + (cp % 64)>>
    ELSE <<224 + (cp \div 4096), 128 + ((cp \div 64) % 64), 128 + (cp % 64)>>

RECURSIVE Utf8(_)
\* The bytes of a string: len(word) and word[i] of the source work on these.
Utf8(s) ==
    IF s = <<>> THEN <<>> ELSE Utf8Rune(Head(s)) \o Utf8(Tail(s))

\* unicode.ToLower on one code point (ASCII and Latin-1 letters).
LowerRune(cp) ==
    IF cp >= 65 /\ cp <= 90 THEN cp + 32
    ELSE IF cp >= 192 /\ cp <= 222 /\ cp # 215 THEN cp + 32
    ELSE cp

\* strings.ToLower.
ToLower(s) == [i \in 1..Len(s) |-> LowerRune(s[i])]

IsPrefix(p, w) == Len(p) <= Len(w) /\ SubSeq(w, 1, Len(p)) = p

Range(s) == { s[i] : i \in 1..Len(s) }

\* All orders in which the elements of S can be visited (Go's map iteration
\* order is unspecified).
Orders(S) ==
    { f \in [1..Cardinality(S) -> S] : \A i, j \in 1..Cardinality(S) : f[i] = f[j] => i = j }

(***************************************************************************)
(* internal/trie/trie.go                                                   *)
(***************************************************************************)
Root == <<>>

\* NewTrie: a root node with no children, IsWord false.
NewTrie == [n \in {Root} |-> FALSE]

\* The keys of node.Children.
Children(tr, node) ==
    { n[Len(n)] : n \in { m \in DOMAIN tr : Len(m) = Len(node) + 1 /\ IsPrefix(node, m) } }

\* delete(node.Children, char): the child under key char goes, with its subtree.
RemoveChild(tr, node, char) ==
    [n \in { m \in DOMAIN tr : ~IsPrefix(Append(node, char), m) } |-> tr[n]]

\* An Insert that puts fresh nodes on the whole path of word: the terminal
\* flags of the stored words that word extends are lost.
InsertFreshPath(tr, word) ==
    LET path == { SubSeq(word, 1, i) : i \in 0..Len(word) }
    IN  [n \in DOMAIN tr \cup path |->
            IF n = word THEN TRUE
            ELSE IF n \in path THEN FALSE ELSE tr[n]]

\* Trie.Insert: walk the runes of word, create the missing nodes, mark the last.
Insert(tr, word) ==
    LET path == { SubSeq(word, 1, i) : i \in 0..Len(word) }
    IN  [n \in DOMAIN tr \cup path |->
            IF n = word THEN TRUE
            ELSE IF n \in DOMAIN tr THEN tr[n] ELSE FALSE]

RECURSIVE DeleteLoopKeepsNoWords(_, _, _, _)
\* The back-walk with the IsWord test forgotten: a childless node goes even if
\* it is the end of another stored word.
DeleteLoopKeepsNoWords(tr, stack, bytes, i) ==
    IF i < 0 THEN [trie |-> tr, panic |-> FALSE]
    ELSE IF i + 1 > Len(stack) - 1 THEN [trie |-> tr, panic |-> TRUE]
    ELSE LET char == bytes[i + 1]
             node == stack[i + 1]
             child == stack[i + 2]
         IN  IF Children(tr, child) = {}
             THEN DeleteLoopKeepsNoWords(RemoveChild(tr, node, char), stack, bytes, i - 1)
             ELSE DeleteLoopKeepsNoWords(tr, stack, bytes, i - 1)

RECURSIVE DeleteLoopKeepsNoChildren(_, _, _, _)
\* The back-walk with the len(child.Children) == 0 test forgotten: a
\* non-terminal node goes with the subtree below it.
DeleteLoopKeepsNoChildren(tr, stack, bytes, i) ==
    IF i < 0 THEN [trie |-> tr, panic |-> FALSE]
    ELSE IF i + 1 > Len(stack) - 1 THEN [trie |-> tr, panic |-> TRUE]
    ELSE LET char == bytes[i + 1]
             node == stack[i + 1]
             child == stack[i + 2]
         IN  IF child \in DOMAIN tr /\ ~tr[child]
             THEN DeleteLoopKeepsNoChildren(RemoveChild(tr, node, char), stack, bytes, i - 1)
             ELSE DeleteLoopKeepsNoChildren(tr, stack, bytes, i - 1)

RECURSIVE DeleteLoop(_, _, _, _)
\* The back-walk of Trie.Delete, for i := len(word)-1; i >= 0; i--, over the
\* BYTES of word: char is rune(word[i]), node is stack[i], child is stack[i+1]
\* (the source's stack is 0-indexed: its stack[k] is stack[k + 1] here).  An
\* index past the end of the stack panics; the deferred Unlock still runs.
DeleteLoop(tr, stack, bytes, i) ==
    IF i < 0 THEN [trie |-> tr, panic |-> FALSE]
    ELSE IF i + 1 > Len(stack) - 1 THEN [trie |-> tr, panic |-> TRUE]
    ELSE LET char == bytes[i + 1]
             node == stack[i + 1]
             child == stack[i + 2]
         IN  IF Children(tr, child) = {} /\ ~tr[child]
             THEN DeleteLoop(RemoveChild(tr, node, char), stack, bytes, i - 1)
             ELSE DeleteLoop(tr, stack, bytes, i - 1)

\* Trie.Delete: [trie |-> the index afterwards, panic |-> the call panicked].
Delete(tr, word) ==
    LET stack == [k \in 1..(Len(word) + 1) |-> SubSeq(word, 1, k - 1)]
    IN  IF \E k \in 1..Len(word) : SubSeq(word, 1, k) \notin DOMAIN tr
        THEN [trie |-> tr, panic |-> FALSE]
        ELSE IF ~tr[word] THEN [trie |-> tr, panic |-> FALSE]
        ELSE DeleteLoop([tr EXCEPT ![word] = FALSE], stack, Utf8(word),
                        Len(Utf8(word)) - 1)

\* Trie.Exists.
Exists(tr, word) ==
    IF \E k \in 1..Len(word) : SubSeq(word, 1, k) \notin DOMAIN tr
    THEN FALSE
    ELSE tr[word]

\* The words an index stores: the paths of its IsWord nodes.
WordsOf(tr) == { n \in DOMAIN tr : tr[n] }

NodeCount(tr) == Cardinality(DOMAIN tr)

(***************************************************************************)
(* Library callers of trie.go                                              *)
(***************************************************************************)
NoCall == [op |-> "none", word |-> <<>>, ret |-> "none", data |-> <<>>, nodes |-> 0,
           afterInsert |-> FALSE, nodesBeforeInsert |-> 0, before |-> NewTrie]

LibInit ==
    /\ t = NewTrie
    /\ present = {}
    /\ last = NoCall

CallInsert(word) ==
    /\ t' = Insert(t, word)
    /\ present' = present \cup {word}
    /\ last' = [op |-> "Insert", word |-> word, ret |-> "ok", data |-> <<>>, nodes |-> NodeCount(t),
                afterInsert |-> FALSE, nodesBeforeInsert |-> 0, before |-> t]

CallDelete(word) ==
    LET d == Delete(t, word)
    IN  /\ t' = d.trie
        /\ present' = present \ {word}
        /\ last' = [op |-> "Delete", word |-> word,
                    ret |-> IF d.panic THEN "panic" ELSE "ok", data |-> <<>>,
                    nodes |-> NodeCount(t),
                    afterInsert |-> (last.op = "Insert" /\ last.word = word),
                    nodesBeforeInsert |-> IF last.op = "Insert" /\ last.word = word
                                          THEN last.nodes ELSE 0,
                    before |-> t]

CallExists(word) ==
    /\ last' = [op |-> "Exists", word |-> word,
                ret |-> IF Exists(t, word) THEN "true" ELSE "false", data |-> <<>>,
                nodes |-> NodeCount(t), afterInsert |-> FALSE, nodesBeforeInsert |-> 0, before |-> t]
    /\ UNCHANGED <<t, present>>

\* sync.RWMutex: w is the goroutine that holds the lock for writing (0: none),
\* r the goroutines that hold it for reading.
MuFree == [w |-> 0, r |-> {}]

\* A Lock that never waits.
CanLockAlways(m) == TRUE

\* Lock() returns once no goroutine holds the lock.
CanLock(m) == m.w = 0 /\ m.r = {}

\* RLock() returns once no goroutine holds the lock for writing.
CanRLock(m) == m.w = 0

\* The goroutines that call methods of one Trie.
Goroutines == {1, 2, 3}

NoGo == [pc |-> "idle", op |-> "none", word |-> <<>>, i |-> 0, ret |-> "none",
         start |-> NewTrie]

\* The request slots: the server runs one goroutine per request in flight.
Slots == {1, 2}

\* What a handler holds while it works on the index without the cache: ref
\* tells whether the Trie pointer it loaded from trieV1 is none, the Trie
\* trieV1 points to ("live") or a Trie that a clear-all has replaced since
\* ("stale", its nodes in held); base, cur and seen are the traversal of
\* CollectWords: the node it started from, the node it stands on, the nodes it
\* has entered.  History: views, the word sets the index went through during
\* the traversal; resetDone, the clear-all that replaced the Trie has returned;
\* late, the words the request inserted under a lock taken after that.
NoLoc == [ref |-> "none", held |-> NewTrie, base |-> <<>>, cur |-> <<>>, seen |-> {},
          views |-> {}, resetDone |-> FALSE, late |-> {}]

ConInit ==
    /\ mu = MuFree
    /\ gor = [g \in Goroutines |-> NoGo]
    /\ muV1 = MuFree
    /\ loc = [p \in Slots |-> NoLoc]

NoReq == [kind |-> "none", arg |-> <<>>, words |-> <<>>, bad |-> FALSE]

NoResp == [req |-> NoReq, status |-> 0, data |-> <<>>, count |-> 0,
           exists |-> FALSE, hit |-> FALSE, solo |-> FALSE]

\* Package initialisation of internal/handlers: trieV1 = trie.NewTrie(),
\* cacheV1 = cache.New(...), no request in flight.
SrvInit ==
    /\ trieV1 = NewTrie
    /\ cacheV1 = <<>>
    /\ pc = [p \in Slots |-> "idle"]
    /\ req = [p \in Slots |-> NoReq]
    /\ results = [p \in Slots |-> <<>>]
    /\ count = [p \in Slots |-> 0]
    /\ idx = [p \in Slots |-> 0]
    /\ resp = NoResp
    /\ solo = [p \in Slots |-> FALSE]
    /\ prev = NoReq
    /\ deleted = {}
    /\ nReqs = 0

\* Package initialisation of the middleware: limiter = rate.NewLimiter(1, 3)
\* starts with its burst of tokens; the router has served nothing.
Burst == 3

NoToken == [form |-> "empty", alg |-> "", sig |-> "", exp |-> ""]

NoHeader == [scheme |-> "", token |-> NoToken]

NoConn == [method |-> "", path |-> "", header |-> NoHeader, status |-> 0, by |-> "",
           allowed |-> FALSE, before |-> <<>>, issued |-> NoToken]

WebInit ==
    /\ limiter = Burst
    /\ conn = NoConn

TrieInit == LibInit /\ SrvInit /\ ConInit /\ WebInit

TrieNext ==
    \/ \E word \in LibWords : CallInsert(word) /\ UNCHANGED notLib
    \/ \E word \in LibWords : CallDelete(word) /\ UNCHANGED notLib
    \/ \E word \in LibWords : CallExists(word) /\ UNCHANGED notLib

SpecTrie == TrieInit /\ [][TrieNext]_vars

\* C1: after any sequence of Insert and Delete calls, Exists(w) is true exactly
\* for the non-empty words w inserted and not deleted since, and an Exists call
\* returns that; right after Insert(w), Exists(w) is true.
ExistsRefinesWordSet ==
    /\ \A w \in LibWords \ {EmptyStr} : Exists(t, w) <=> w \in present
    /\ (last.op = "Exists" /\ last.word # EmptyStr)
          => (last.ret = "true" <=> last.word \in present)
    /\ (last.op = "Insert" /\ last.word # EmptyStr) => Exists(t, last.word)

\* C1 witness: a word was deleted while a word it extends and a word that
\* extends it stay stored, and an Exists call has just answered false for it.
ExistsRefinesWordSetWitness ==
    /\ last.op = "Exists" /\ last.word = <<97, 98>> /\ last.ret = "false"
    /\ present = { <<97>>, <<97, 98, 97>>, <<233>> }

\* C10 as claimed: Insert(w) directly followed by Delete(w) leaves Exists(w)
\* false and as many nodes as before the Insert.
InsertDeleteRestoresNodeCount ==
    (last.op = "Delete" /\ last.afterInsert)
        => (~Exists(t, last.word) /\ NodeCount(t) = last.nodesBeforeInsert)

(***************************************************************************)
(* Concurrent callers of trie.go: each call takes t.mu, runs its loops one *)
(* iteration per step, and releases t.mu by its deferred Unlock/RUnlock    *)
(***************************************************************************)
\* The words the concurrent callers pass: "", "a", "ab", U+00E9.
MuWords == { <<>>, <<97>>, <<97, 98>>, <<233>> }

IsWriter(g) == gor[g].op \in {"Insert", "Delete"}

\* Goroutine g is between its Lock/RLock and its Unlock/RUnlock.
Inside(g) == gor[g].pc \notin {"idle", "lock"}

\* Goroutine g calls t.Insert(word), t.Delete(word) or t.Exists(word).
MuCall(g, op, word) ==
    /\ gor[g].pc = "idle"
    /\ gor' = [gor EXCEPT ![g] = [NoGo EXCEPT !.pc = "lock", !.op = op, !.word = word]]
    /\ UNCHANGED <<t, present, last, mu>>

\* Where a call stands after its walk over the runes of word.
AfterWalk(op) ==
    IF op = "Insert" THEN "mark" ELSE IF op = "Delete" THEN "check" ELSE "read"

\* t.mu.Lock() of Insert and Delete; node := t.Root.
MuLock(g) ==
    /\ gor[g].pc = "lock"
    /\ IsWriter(g)
    /\ CanLock(mu)
    /\ mu' = [mu EXCEPT !.w = g]
    /\ gor' = [gor EXCEPT ![g].pc = IF gor[g].word = <<>> THEN AfterWalk(gor[g].op) ELSE "walk",
                          ![g].i = 0,
                          ![g].start = t]
    /\ UNCHANGED <<t, present, last>>

\* t.mu.RLock() of Exists; node := t.Root.
MuRLock(g) ==
    /\ gor[g].pc = "lock"
    /\ gor[g].op = "Exists"
    /\ CanRLock(mu)
    /\ mu' = [mu EXCEPT !.r = @ \cup {g}]
    /\ gor' = [gor EXCEPT ![g].pc = IF gor[g].word = <<>> THEN AfterWalk(gor[g].op) ELSE "walk",
                          ![g].i = 0,
                          ![g].start = t]
    /\ UNCHANGED <<t, present, last>>

\* One iteration of Insert's loop over the runes of word: the child is created
\* if it is missing, node moves to it.
MuInsertWalk(g) ==
    LET c == gor[g]
        child == SubSeq(c.word, 1, c.i + 1)
    IN  /\ c.pc = "walk" /\ c.op = "Insert"
        /\ t' = IF child \in DOMAIN t THEN t
                ELSE [n \in DOMAIN t \cup {child} |-> IF n = child THEN FALSE ELSE t[n]]
        /\ gor' = [gor EXCEPT ![g].i = c.i + 1,
                              ![g].pc = IF c.i + 1 = Len(c.word) THEN "mark" ELSE "walk"]
        /\ UNCHANGED <<present, last, mu>>

\* Insert: node.IsWord = true.
MuInsertMark(g) ==
    LET c == gor[g]
    IN  /\ c.pc = "mark"
        /\ t' = [t EXCEPT ![c.word] = TRUE]
        /\ present' = present \cup {c.word}
        /\ gor' = [gor EXCEPT ![g].pc = "unlock", ![g].ret = "ok"]
        /\ UNCHANGED <<last, mu>>

\* One iteration of Delete's loop over the runes of word: return if the child
\* is missing, else node moves to it and is pushed on the stack.
MuDeleteWalk(g) ==
    LET c == gor[g]
        child == SubSeq(c.word, 1, c.i + 1)
    IN  /\ c.pc = "walk" /\ c.op = "Delete"
        /\ gor' = IF child \notin DOMAIN t
                  THEN [gor EXCEPT ![g].pc = "unlock", ![g].ret = "ok"]
                  ELSE [gor EXCEPT ![g].i = c.i + 1,
                                   ![g].pc = IF c.i + 1 = Len(c.word) THEN "check" ELSE "walk"]
        /\ UNCHANGED <<t, present, last, mu>>

\* Delete: if !node.IsWord return; node.IsWord = false; i := len(word) - 1.
MuDeleteCheck(g) ==
    LET c == gor[g]
    IN  /\ c.pc = "check"
        /\ IF ~t[c.word]
           THEN /\ gor' = [gor EXCEPT ![g].pc = "unlock", ![g].ret = "ok"]
                /\ UNCHANGED <<t, present>>
           ELSE /\ t' = [t EXCEPT ![c.word] = FALSE]
                /\ present' = present \ {c.word}
                /\ gor' = [gor EXCEPT ![g].i = Len(Utf8(c.word)) - 1,
                                      ![g].ret = "ok",
                                      ![g].pc = IF Len(Utf8(c.word)) - 1 < 0
                                                THEN "unlock" ELSE "back"]
        /\ UNCHANGED <<last, mu>>

\* One iteration of Delete's back-walk, i counting bytes: stack[i+1] out of
\* range panics; a childless non-terminal child is deleted under the key
\* rune(word[i]).
MuDeleteBack(g) ==
    LET c == gor[g]
        node == SubSeq(c.word, 1, c.i)
        child == SubSeq(c.word, 1, c.i + 1)
        char == Utf8(c.word)[c.i + 1]
    IN  /\ c.pc = "back"
        /\ IF c.i + 1 > Len(c.word)
           THEN /\ gor' = [gor EXCEPT ![g].pc = "unlock", ![g].ret = "panic"]
                /\ UNCHANGED t
           ELSE /\ t' = IF Children(t, child) = {} /\ ~t[child]
                        THEN RemoveChild(t, node, char) ELSE t
                /\ gor' = [gor EXCEPT ![g].i = c.i - 1,
                                      ![g].pc = IF c.i - 1 < 0 THEN "unlock" ELSE "back"]
        /\ UNCHANGED <<present, last, mu>>

\* One iteration of Exists's loop over the runes of word.
MuExistsWalk(g) ==
    LET c == gor[g]
        child == SubSeq(c.word, 1, c.i + 1)
    IN  /\ c.pc = "walk" /\ c.op = "Exists"
        /\ gor' = IF child \notin DOMAIN t
                  THEN [gor EXCEPT ![g].pc = "unlock", ![g].ret = "false"]
                  ELSE [gor EXCEPT ![g].i = c.i + 1,
                                   ![g].pc = IF c.i + 1 = Len(c.word) THEN "read" ELSE "walk"]
        /\ UNCHANGED <<t, present, last, mu>>

\* Exists: return node.IsWord.
MuExistsRead(g) ==
    LET c == gor[g]
    IN  /\ c.pc = "read"
        /\ gor' = [gor EXCEPT ![g].pc = "unlock",
                              ![g].ret = IF t[c.word] THEN "true" ELSE "false"]
        /\ UNCHANGED <<t, present, last, mu>>

\* The deferred t.mu.Unlock() of Insert and Delete, run on return and on panic.
MuUnlock(g) ==
    /\ gor[g].pc = "unlock"
    /\ IsWriter(g)
    /\ mu' = [mu EXCEPT !.w = 0]
    /\ gor' = [gor EXCEPT ![g] = NoGo]
    /\ UNCHANGED <<t, present, last>>

\* The deferred t.mu.RUnlock() of Exists.
MuRUnlock(g) ==
    /\ gor[g].pc = "unlock"
    /\ gor[g].op = "Exists"
    /\ mu' = [mu EXCEPT !.r = @ \ {g}]
    /\ gor' = [gor EXCEPT ![g] = NoGo]
    /\ UNCHANGED <<t, present, last>>

MuNext ==
    \/ \E g \in Goroutines, op \in {"Insert", "Delete", "Exists"}, word \in MuWords :
          MuCall(g, op, word) /\ UNCHANGED <<srvVars, fineVars, webVars>>
    \/ \E g \in Goroutines : MuLock(g) /\ UNCHANGED <<srvVars, fineVars, webVars>>
    \/ \E g \in Goroutines : MuRLock(g) /\ UNCHANGED <<srvVars, fineVars, webVars>>
    \/ \E g \in Goroutines : MuInsertWalk(g) /\ UNCHANGED <<srvVars, fineVars, webVars>>
    \/ \E g \in Goroutines : MuInsertMark(g) /\ UNCHANGED <<srvVars, fineVars, webVars>>
    \/ \E g \in Goroutines : MuDeleteWalk(g) /\ UNCHANGED <<srvVars, fineVars, webVars>>
    \/ \E g \in Goroutines : MuDeleteCheck(g) /\ UNCHANGED <<srvVars, fineVars, webVars>>
    \/ \E g \in Goroutines : MuDeleteBack(g) /\ UNCHANGED <<srvVars, fineVars, webVars>>
    \/ \E g \in Goroutines : MuExistsWalk(g) /\ UNCHANGED <<srvVars, fineVars, webVars>>
    \/ \E g \in Goroutines : MuExistsRead(g) /\ UNCHANGED <<srvVars, fineVars, webVars>>
    \/ \E g \in Goroutines : MuUnlock(g) /\ UNCHANGED <<srvVars, fineVars, webVars>>
    \/ \E g \in Goroutines : MuRUnlock(g) /\ UNCHANGED <<srvVars, fineVars, webVars>>

SpecMu == TrieInit /\ [][MuNext]_vars

\* C17: among concurrent Insert, Delete and Exists calls on one Trie, a call
\* that is inside Insert or Delete excludes every other call from being
\* inside; the lock is held by exactly the calls that are inside, so a call
\* that has returned (normally, by one of Delete's early returns, or by its
\* panic) holds nothing; a mutating call that has finished its work has taken
\* the index from the state it found to the state Insert(word) or Delete(word)
\* gives on that state, and an Exists call answers for the state it found; with
\* no mutating call inside, the stored words are the words that the mutating
\* calls, applied one after the other in the order they took the lock, leave.
CallsRespectLock ==
    /\ \A g, h \in Goroutines :
          (g # h /\ Inside(g) /\ IsWriter(g)) => ~Inside(h)
    /\ \A g \in Goroutines :
          /\ (mu.w = g) <=> (Inside(g) /\ IsWriter(g))
          /\ (g \in mu.r) <=> (Inside(g) /\ ~IsWriter(g))
    /\ mu.w \in Goroutines \cup {0} /\ mu.r \subseteq Goroutines
    /\ \A g \in Goroutines : gor[g].pc = "unlock" =>
          /\ gor[g].op = "Insert" => t = Insert(gor[g].start, gor[g].word)
          /\ gor[g].op = "Delete" =>
                /\ t = Delete(gor[g].start, gor[g].word).trie
                /\ (gor[g].ret = "panic") = Delete(gor[g].start, gor[g].word).panic
          /\ gor[g].op = "Exists" =>
                /\ t = gor[g].start
                /\ (gor[g].ret = "true") = Exists(t, gor[g].word)
    /\ (\A g \in Goroutines : ~(Inside(g) /\ IsWriter(g))) => WordsOf(t) = present

\* C17 witness: a Delete call is about to release the lock after an early
\* return (a stored word extends its word, which is not stored), while an
\* Insert and an Exists call wait for the lock.
CallsRespectLockWitness ==
    /\ gor[1].op = "Delete" /\ gor[1].pc = "unlock" /\ gor[1].word = <<97>>
    /\ t = gor[1].start /\ <<97, 98>> \in present /\ <<97>> \notin present
    /\ gor[2].op = "Insert" /\ gor[2].pc = "lock"
    /\ gor[3].op = "Exists" /\ gor[3].pc = "lock"
    /\ mu.w = 1

(***************************************************************************)
(* The index variant with Search (unexported fields, Insert skips "")      *)
(***************************************************************************)
\* Trie.Insert of the Search variant: the empty word is not stored.
InsertNonEmpty(tr, word) ==
    IF word = EmptyStr THEN tr ELSE Insert(tr, word)

RECURSIVE collectWords(_, _, _)
RECURSIVE collectChildren(_, _, _, _)
\* The for ch, child := range node.children loop of collectWords, its keys
\* visited in the given order: the sequences the appends can build.
collectChildren(tr, node, currentPrefix, order) ==
    IF order = <<>> THEN { <<>> }
    ELSE { a \o b :
             a \in collectWords(tr, Append(node, Head(order)),
                                Append(currentPrefix, Head(order))),
             b \in collectChildren(tr, node, currentPrefix, Tail(order)) }

\* collectWords(node, currentPrefix): the set of result slices it can return,
\* one per iteration order of the maps it ranges over.
collectWords(tr, node, currentPrefix) ==
    LET own == IF tr[node] THEN <<currentPrefix>> ELSE <<>>
    IN  { own \o rest :
            rest \in UNION { collectChildren(tr, node, currentPrefix, o) :
                               o \in Orders(Children(tr, node)) } }

\* A Search that forgets to walk down to the prefix's node.
SearchFromRoot(tr, prefix) ==
    IF prefix = EmptyStr THEN { <<>> } ELSE collectWords(tr, Root, prefix)

\* A Search without the test for the empty prefix: the walk takes no step and
\* the words are collected from the root.
SearchNoEmptyCheck(tr, prefix) ==
    IF \E k \in 1..Len(prefix) : SubSeq(prefix, 1, k) \notin DOMAIN tr
    THEN { <<>> }
    ELSE collectWords(tr, prefix, prefix)

\* Trie.Search: the set of slices it can return.
Search(tr, prefix) ==
    IF prefix = EmptyStr THEN { <<>> }
    ELSE IF \E k \in 1..Len(prefix) : SubSeq(prefix, 1, k) \notin DOMAIN tr
    THEN { <<>> }
    ELSE collectWords(tr, prefix, prefix)

CallInsertNonEmpty(word) ==
    /\ t' = InsertNonEmpty(t, word)
    /\ present' = IF word = EmptyStr THEN present ELSE present \cup {word}
    /\ last' = [op |-> "Insert", word |-> word, ret |-> "ok", data |-> <<>>,
                nodes |-> NodeCount(t), afterInsert |-> FALSE, nodesBeforeInsert |-> 0, before |-> t]

CallSearch(prefix) ==
    \E r \in Search(t, prefix) :
        /\ last' = [op |-> "Search", word |-> prefix, ret |-> "ok", data |-> r,
                    nodes |-> NodeCount(t), afterInsert |-> FALSE, nodesBeforeInsert |-> 0, before |-> t]
        /\ UNCHANGED <<t, present>>

\* The words of TestInsertAndSearch: magic, magnet, maggie, maggot, ma, megan,
\* mama, mam (and the empty string it inserts first).
TestWords ==
    { <<>>,
      <<109, 97, 103, 105, 99>>, <<109, 97, 103, 110, 101, 116>>,
      <<109, 97, 103, 103, 105, 101>>, <<109, 97, 103, 103, 111, 116>>,
      <<109, 97>>, <<109, 101, 103, 97, 110>>, <<109, 97, 109, 97>>, <<109, 97, 109>> }

\* The prefixes TestInsertAndSearch searches: "", "mag", "a", "ma"; and "m".
TestPrefixes == { <<>>, <<109, 97, 103>>, <<97>>, <<109, 97>>, <<109>> }

\* A run of the Search variant draws its words from one vocabulary.
Vocabularies == { LibWords, TestWords }

SearchPrefixes == LibWords \cup TestPrefixes

SearchNext ==
    \/ \E V \in Vocabularies : \E word \in V :
          present \subseteq V /\ CallInsertNonEmpty(word) /\ UNCHANGED notLib
    \/ \E prefix \in SearchPrefixes : CallSearch(prefix) /\ UNCHANGED notLib

SpecSearch == TrieInit /\ [][SearchNext]_vars

NoDuplicates(s) == \A i, j \in 1..Len(s) : s[i] = s[j] => i = j

\* C2: for every index state and every non-empty prefix p, every slice Search(p)
\* can return lists exactly the stored words that start with p, each once; so
\* does the slice a Search call has just returned.  With the eight words of
\* the test stored, Search("mag") returns 4 words, Search("ma") 7, Search("a") none.
SearchReturnsPrefixWords ==
    /\ \A p \in SearchPrefixes \ {EmptyStr} : \A r \in Search(t, p) :
          /\ Range(r) = { w \in present : IsPrefix(p, w) }
          /\ NoDuplicates(r)
    /\ (last.op = "Search" /\ last.word # EmptyStr)
          => /\ Range(last.data) = { w \in present : IsPrefix(last.word, w) }
             /\ NoDuplicates(last.data)
    /\ (last.op = "Search" /\ present = TestWords \ {EmptyStr})
          => /\ last.word = <<109, 97, 103>> => Len(last.data) = 4
             /\ last.word = <<109, 97>> => Len(last.data) = 7
             /\ last.word = <<97>> => last.data = <<>>

\* C2 witness: with the eight words of the test stored, Search("ma") has
\* returned seven words, "megan" not among them.
SearchReturnsPrefixWordsWitness ==
    /\ last.op = "Search" /\ last.word = <<109, 97>> /\ Len(last.data) = 7
    /\ present = TestWords \ {EmptyStr}
    /\ <<109, 101, 103, 97, 110>> \notin Range(last.data)

(***************************************************************************)
(* internal/trie/trie.go: CollectWords, CountWords                         *)
(***************************************************************************)
RECURSIVE CollectWords(_, _, _)
RECURSIVE CollectChildren(_, _, _, _)
\* The for char, child := range node.Children loop of CollectWords, its keys
\* visited in the given order.
CollectChildren(tr, node, prefix, order) ==
    IF order = <<>> THEN { <<>> }
    ELSE { a \o b :
             a \in CollectWords(tr, Append(node, Head(order)), Append(prefix, Head(order))),
             b \in CollectChildren(tr, node, prefix, Tail(order)) }

\* Trie.CollectWords(node, prefix): the set of slices it can return, one per
\* iteration order of the maps it ranges over.  prefix is the string the
\* caller passes, which need not be the path of node.
CollectWords(tr, node, prefix) ==
    LET own == IF tr[node] THEN <<prefix>> ELSE <<>>
    IN  { own \o rest :
            rest \in UNION { CollectChildren(tr, node, prefix, o) :
                               o \in Orders(Children(tr, node)) } }

\* A count of the nodes below node instead of the terminal ones.
CountWordsNodes(tr, node) ==
    Cardinality({ n \in DOMAIN tr : IsPrefix(node, n) })

RECURSIVE CountWords(_, _)
RECURSIVE CountChildren(_, _, _)
CountChildren(tr, node, keys) ==
    IF keys = {} THEN 0
    ELSE LET char == CHOOSE c \in keys : TRUE
         IN  CountWords(tr, Append(node, char)) + CountChildren(tr, node, keys \ {char})

\* Trie.CountWords(node).
CountWords(tr, node) ==
    (IF tr[node] THEN 1 ELSE 0) + CountChildren(tr, node, Children(tr, node))

(***************************************************************************)
(* cacheV1 (patrickmn/go-cache): Get, Set, Delete, Flush; entries expire    *)
(***************************************************************************)
CacheFound(c, k) == k \in DOMAIN c

CacheSet(c, k, v) == [x \in DOMAIN c \cup {k} |-> IF x = k THEN v ELSE c[x]]

CacheDelete(c, k) == [x \in DOMAIN c \ {k} |-> c[x]]

\* A Flush that leaves the entries in place.
FlushNothing(c) == c

Flush(c) == <<>>

(***************************************************************************)
(* internal/handlers/v1.go                                                 *)
(***************************************************************************)
\* Number of requests the server receives in one run.
MaxReqs == 4

\* The words and prefixes requests carry: "", "a", "A", "ab", U+00E9.
ReqWords == { <<>>, <<97>>, <<65>>, <<97, 98>>, <<233>> }

\* The request.Words of add requests: none, one word, two words.
AddBodies == { <<>>, << <<>> >>, << <<97>> >>, << <<65>> >>, << <<97, 98>> >>,
               << <<233>> >>, << <<97>>, <<97, 98>> >> }

\* The narrower inputs of the interleaved runs: "", "a", "ab".
RaceWords == { <<>>, <<97>>, <<97, 98>> }

RaceBodies == { <<>>, << <<97>> >>, << <<97>>, <<97, 98>> >> }

AllIdle == \A p \in Slots : pc[p] = "idle"

\* The request answered last, kept as history when it was an add request.
Answered == IF resp.req.kind = "add" THEN resp.req ELSE NoReq

\* A request arrives and its handler starts in slot p, the first free slot.
Receive(p, r, first) ==
    /\ pc[p] = "idle"
    /\ \A q \in Slots : q < p => pc[q] # "idle"
    /\ nReqs < MaxReqs
    /\ pc' = [pc EXCEPT ![p] = first]
    /\ req' = [req EXCEPT ![p] = r]
    /\ idx' = [idx EXCEPT ![p] = 1]
    /\ solo' = [q \in Slots |-> IF q = p THEN \A o \in Slots \ {p} : pc[o] = "idle" ELSE FALSE]
    /\ nReqs' = nReqs + 1
    /\ resp' = NoResp
    /\ prev' = IF resp = NoResp THEN prev ELSE Answered
    /\ UNCHANGED <<trieV1, cacheV1, results, count, deleted>>

\* The handler in slot p writes its response and returns.
Respond(p, status, data, cnt, ex, hit) ==
    /\ resp' = [req |-> req[p], status |-> status, data |-> data, count |-> cnt,
                exists |-> ex, hit |-> hit, solo |-> solo[p]]
    /\ prev' = IF resp = NoResp THEN prev ELSE Answered
    /\ pc' = [pc EXCEPT ![p] = "idle"]
    /\ req' = [req EXCEPT ![p] = NoReq]
    /\ results' = [results EXCEPT ![p] = <<>>]
    /\ count' = [count EXCEPT ![p] = 0]
    /\ idx' = [idx EXCEPT ![p] = 0]
    /\ solo' = [solo EXCEPT ![p] = FALSE]
    /\ UNCHANGED nReqs

ReceiveAdd(p, words) ==
    Receive(p, [kind |-> "add", arg |-> <<>>, words |-> words, bad |-> FALSE], "add_loop")

ReceiveList(p, prefix) ==
    Receive(p, [kind |-> "list", arg |-> prefix, words |-> <<>>, bad |-> FALSE], "list_get")

ReceiveDelete(p, word, bad) ==
    Receive(p, [kind |-> "delete", arg |-> word, words |-> <<>>, bad |-> bad], "delete_decode")

ReceiveExists(p, word) ==
    Receive(p, [kind |-> "exists", arg |-> word, words |-> <<>>, bad |-> FALSE], "exists")

\* AddWordsHandlerV1, the loop body's trieV1.Insert(strings.ToLower(word)).
AddInsert(p) ==
    /\ pc[p] = "add_loop"
    /\ idx[p] <= Len(req[p].words)
    /\ trieV1' = Insert(trieV1, ToLower(req[p].words[idx[p]]))
    /\ deleted' = deleted \ { ToLower(req[p].words[idx[p]]) }
    /\ pc' = [pc EXCEPT ![p] = "add_flush"]
    /\ UNCHANGED <<cacheV1, req, results, count, idx, resp, solo, prev, nReqs>>

\* AddWordsHandlerV1, the loop body's cacheV1.Flush().
AddFlush(p) ==
    /\ pc[p] = "add_flush"
    /\ cacheV1' = Flush(cacheV1)
    /\ idx' = [idx EXCEPT ![p] = idx[p] + 1]
    /\ pc' = [pc EXCEPT ![p] = "add_loop"]
    /\ UNCHANGED <<trieV1, req, results, count, resp, solo, prev, deleted, nReqs>>

\* AddWordsHandlerV1, after the loop: 200 {"status": "success"}.
AddRespond(p) ==
    /\ pc[p] = "add_loop"
    /\ idx[p] > Len(req[p].words)
    /\ Respond(p, 200, <<>>, 0, FALSE, FALSE)
    /\ UNCHANGED <<trieV1, cacheV1, deleted>>

\* The walk of ListWordsHandlerV1 over the prefix: the node it stands on when
\* the loop ends, by exhausting the prefix or by the break at a missing child.
RECURSIVE ListWalk(_, _, _)
ListWalk(tr, node, rest) ==
    IF rest = <<>> THEN node
    ELSE IF Head(rest) \notin Children(tr, node) THEN node
    ELSE ListWalk(tr, Append(node, Head(rest)), Tail(rest))

\* The else branch of ListWordsHandlerV1 for a non-empty prefix: the results it
\* can compute.  count is 0 when the loop ends, whether it ended by break
\* (count = 0 is assigned) or not (count is still its zero value), so the
\* if count == 0 block always runs, from the node the walk stopped on.
ListLookup(tr, prefix) ==
    LET node == ListWalk(tr, Root, prefix)
        cnt == 0
    IN  IF cnt = 0 THEN CollectWords(tr, node, prefix) ELSE { <<>> }

\* ListWordsHandlerV1: cacheV1.Get(prefix) finds the entry.
ListHit(p) ==
    /\ pc[p] = "list_get"
    /\ CacheFound(cacheV1, req[p].arg)
    /\ Respond(p, 200, cacheV1[req[p].arg], Len(cacheV1[req[p].arg]), FALSE, TRUE)
    /\ UNCHANGED <<trieV1, cacheV1, deleted>>

\* ListWordsHandlerV1: cacheV1.Get(prefix) finds nothing.
ListMiss(p) ==
    /\ pc[p] = "list_get"
    /\ ~CacheFound(cacheV1, req[p].arg)
    /\ pc' = [pc EXCEPT ![p] = "list_collect"]
    /\ UNCHANGED <<trieV1, cacheV1, req, results, count, idx, resp, solo, prev, deleted, nReqs>>

\* ListWordsHandlerV1, prefix == "": results = CollectWords(Root, "").
ListCollectAll(p) ==
    /\ pc[p] = "list_collect"
    /\ req[p].arg = EmptyStr
    /\ \E r \in CollectWords(trieV1, Root, EmptyStr) :
          results' = [results EXCEPT ![p] = r]
    /\ pc' = [pc EXCEPT ![p] = "list_count"]
    /\ UNCHANGED <<trieV1, cacheV1, req, count, idx, resp, solo, prev, deleted, nReqs>>

\* ListWordsHandlerV1, prefix == "": count = CountWords(Root).
ListCountAll(p) ==
    /\ pc[p] = "list_count"
    /\ count' = [count EXCEPT ![p] = CountWords(trieV1, Root)]
    /\ pc' = [pc EXCEPT ![p] = "list_set"]
    /\ UNCHANGED <<trieV1, cacheV1, req, results, idx, resp, solo, prev, deleted, nReqs>>

\* ListWordsHandlerV1, prefix != "": the walk, CollectWords and len(results).
ListCollectPrefix(p) ==
    /\ pc[p] = "list_collect"
    /\ req[p].arg # EmptyStr
    /\ \E r \in ListLookup(trieV1, req[p].arg) :
          /\ results' = [results EXCEPT ![p] = r]
          /\ count' = [count EXCEPT ![p] = Len(r)]
    /\ pc' = [pc EXCEPT ![p] = "list_set"]
    /\ UNCHANGED <<trieV1, cacheV1, req, idx, resp, solo, prev, deleted, nReqs>>

\* ListWordsHandlerV1: cacheV1.Set(prefix, results, ...) and the response.
ListSet(p) ==
    /\ pc[p] = "list_set"
    /\ cacheV1' = CacheSet(cacheV1, req[p].arg, results[p])
    /\ Respond(p, 200, results[p], count[p], FALSE, FALSE)
    /\ UNCHANGED <<trieV1, deleted>>

\* DeleteWordsHandlerV1: the body does not decode, 400.
DeleteBadBody(p) ==
    /\ pc[p] = "delete_decode"
    /\ req[p].bad
    /\ Respond(p, 400, <<>>, 0, FALSE, FALSE)
    /\ UNCHANGED <<trieV1, cacheV1, deleted>>

\* DeleteWordsHandlerV1, request.Word == "": trieV1 = trie.NewTrie().
DeleteClearAll(p) ==
    /\ pc[p] = "delete_decode"
    /\ ~req[p].bad
    /\ req[p].arg = EmptyStr
    /\ trieV1' = NewTrie
    /\ pc' = [pc EXCEPT ![p] = "delete_flush"]
    /\ UNCHANGED <<cacheV1, req, results, count, idx, resp, solo, prev, deleted, nReqs>>

\* DeleteWordsHandlerV1, request.Word == "": cacheV1.Flush() and the response.
DeleteFlush(p) ==
    /\ pc[p] = "delete_flush"
    /\ cacheV1' = Flush(cacheV1)
    /\ Respond(p, 200, <<>>, 0, FALSE, FALSE)
    /\ UNCHANGED <<trieV1, deleted>>

\* DeleteWordsHandlerV1, request.Word != "": trieV1.Delete(request.Word).  A
\* panic in Delete ends the handler: net/http recovers it and closes the
\* connection (status 0 here), and cacheV1.Delete is not reached.
DeleteWord(p) ==
    /\ pc[p] = "delete_decode"
    /\ ~req[p].bad
    /\ req[p].arg # EmptyStr
    /\ LET d == Delete(trieV1, req[p].arg)
       IN  /\ trieV1' = d.trie
           /\ deleted' = IF Exists(trieV1, req[p].arg) /\ ~d.panic
                         THEN deleted \cup { req[p].arg } ELSE deleted
           /\ IF d.panic
              THEN Respond(p, 0, <<>>, 0, FALSE, FALSE)
              ELSE /\ pc' = [pc EXCEPT ![p] = "delete_cache"]
                   /\ UNCHANGED <<req, results, count, idx, resp, solo, prev, nReqs>>
    /\ UNCHANGED cacheV1

\* DeleteWordsHandlerV1: cacheV1.Delete(request.Word) and the response.
DeleteCacheKey(p) ==
    /\ pc[p] = "delete_cache"
    /\ cacheV1' = CacheDelete(cacheV1, req[p].arg)
    /\ Respond(p, 200, <<>>, 0, FALSE, FALSE)
    /\ UNCHANGED <<trieV1, deleted>>

\* WordsExistsHandlerV1 without a word parameter: 400.
ExistsMissingWord(p) ==
    /\ pc[p] = "exists"
    /\ req[p].arg = EmptyStr
    /\ Respond(p, 400, <<>>, 0, FALSE, FALSE)
    /\ UNCHANGED <<trieV1, cacheV1, deleted>>

\* WordsExistsHandlerV1: exists := trieV1.Exists(word).
ExistsCheck(p) ==
    /\ pc[p] = "exists"
    /\ req[p].arg # EmptyStr
    /\ Respond(p, 200, <<>>, 0, Exists(trieV1, req[p].arg), FALSE)
    /\ UNCHANGED <<trieV1, cacheV1, deleted>>

\* A cache entry reaches its expiration time: Get no longer finds it.
Expire(k) ==
    /\ CacheFound(cacheV1, k)
    /\ cacheV1' = CacheDelete(cacheV1, k)
    /\ UNCHANGED <<trieV1, pc, req, results, count, idx, resp, solo, prev, deleted, nReqs>>

Init == LibInit /\ SrvInit /\ ConInit /\ WebInit

\* The server: requests arrive at any time and their handlers interleave.
Next ==
    \/ \E p \in Slots, words \in RaceBodies : ReceiveAdd(p, words) /\ UNCHANGED notSrv
    \/ \E p \in Slots, prefix \in RaceWords : ReceiveList(p, prefix) /\ UNCHANGED notSrv
    \/ \E p \in Slots, word \in RaceWords, bad \in BOOLEAN :
          ReceiveDelete(p, word, bad) /\ UNCHANGED notSrv
    \/ \E p \in Slots, word \in RaceWords : ReceiveExists(p, word) /\ UNCHANGED notSrv
    \/ \E p \in Slots : AddInsert(p) /\ UNCHANGED notSrv
    \/ \E p \in Slots : AddFlush(p) /\ UNCHANGED notSrv
    \/ \E p \in Slots : AddRespond(p) /\ UNCHANGED notSrv
    \/ \E p \in Slots : ListHit(p) /\ UNCHANGED notSrv
    \/ \E p \in Slots : ListMiss(p) /\ UNCHANGED notSrv
    \/ \E p \in Slots : ListCollectAll(p) /\ UNCHANGED notSrv
    \/ \E p \in Slots : ListCountAll(p) /\ UNCHANGED notSrv
    \/ \E p \in Slots : ListCollectPrefix(p) /\ UNCHANGED notSrv
    \/ \E p \in Slots : ListSet(p) /\ UNCHANGED notSrv
    \/ \E p \in Slots : DeleteBadBody(p) /\ UNCHANGED notSrv
    \/ \E p \in Slots : DeleteClearAll(p) /\ UNCHANGED notSrv
    \/ \E p \in Slots : DeleteFlush(p) /\ UNCHANGED notSrv
    \/ \E p \in Slots : DeleteWord(p) /\ UNCHANGED notSrv
    \/ \E p \in Slots : DeleteCacheKey(p) /\ UNCHANGED notSrv
    \/ \E p \in Slots : ExistsMissingWord(p) /\ UNCHANGED notSrv
    \/ \E p \in Slots : ExistsCheck(p) /\ UNCHANGED notSrv
    \/ \E k \in RaceWords : Expire(k) /\ UNCHANGED notSrv

Spec == Init /\ [][Next]_vars

\* The server with one request in flight at a time.
SeqNext ==
    \/ \E p \in Slots, words \in AddBodies : AllIdle /\ ReceiveAdd(p, words) /\ UNCHANGED notSrv
    \/ \E p \in Slots, prefix \in ReqWords : AllIdle /\ ReceiveList(p, prefix) /\ UNCHANGED notSrv
    \/ \E p \in Slots, word \in ReqWords, bad \in BOOLEAN :
          AllIdle /\ ReceiveDelete(p, word, bad) /\ UNCHANGED notSrv
    \/ \E p \in Slots, word \in ReqWords : AllIdle /\ ReceiveExists(p, word) /\ UNCHANGED notSrv
    \/ \E p \in Slots : AddInsert(p) /\ UNCHANGED notSrv
    \/ \E p \in Slots : AddFlush(p) /\ UNCHANGED notSrv
    \/ \E p \in Slots : AddRespond(p) /\ UNCHANGED notSrv
    \/ \E p \in Slots : ListHit(p) /\ UNCHANGED notSrv
    \/ \E p \in Slots : ListMiss(p) /\ UNCHANGED notSrv
    \/ \E p \in Slots : ListCollectAll(p) /\ UNCHANGED notSrv
    \/ \E p \in Slots : ListCountAll(p) /\ UNCHANGED notSrv
    \/ \E p \in Slots : ListCollectPrefix(p) /\ UNCHANGED notSrv
    \/ \E p \in Slots : ListSet(p) /\ UNCHANGED notSrv
    \/ \E p \in Slots : DeleteBadBody(p) /\ UNCHANGED notSrv
    \/ \E p \in Slots : DeleteClearAll(p) /\ UNCHANGED notSrv
    \/ \E p \in Slots : DeleteFlush(p) /\ UNCHANGED notSrv
    \/ \E p \in Slots : DeleteWord(p) /\ UNCHANGED notSrv
    \/ \E p \in Slots : DeleteCacheKey(p) /\ UNCHANGED notSrv
    \/ \E p \in Slots : ExistsMissingWord(p) /\ UNCHANGED notSrv
    \/ \E p \in Slots : ExistsCheck(p) /\ UNCHANGED notSrv
    \/ \E k \in ReqWords : Expire(k) /\ UNCHANGED notSrv

SpecSeq == Init /\ [][SeqNext]_vars

(***************************************************************************)
(* internal/handlers/v1.go with the index calls taken apart: a handler      *)
(* loads the pointer trieV1, the call takes the mutex of the Trie it got,   *)
(* works, releases it; CollectWords enters one node per step and takes no   *)
(* mutex.  With two request slots a Trie that a clear-all has replaced is   *)
(* referred to by one handler at most, which keeps its nodes in loc.held.   *)
(***************************************************************************)
\* The words and prefixes of these runs: "", "a", "b".
FineWords == { <<>>, <<97>>, <<98>> }

FineBodies == { << <<97>> >>, << <<98>> >>, << <<97>>, <<98>> >> }

\* The nodes of the Trie the handler in slot p has a pointer to.
TheTrie(p) == IF loc[p].ref = "stale" THEN loc[p].held ELSE trieV1

\* The handler in slot p is inside CollectWords.
Traversing(p) == pc[p] = "list_dfs"

\* The handler in slot p is between the Lock and the Unlock of Insert or Delete.
WriterInside(p) == pc[p] \in {"add_insert", "delete_word"}

\* A node cut off from its parent: no children, not terminal.
Detached(node) == [n \in { SubSeq(node, 1, i) : i \in 0..Len(node) } |-> FALSE]

\* What the pointers l of a handler become when the Trie trieV1 points to is
\* written and has the nodes new afterwards: a traversal that stands on a
\* node that Delete removed goes on from its parent (the removed node has no
\* children left to enter); if the node it started from was removed, it goes
\* on in that node, which nothing refers to any more.
AfterWrite(l, traversing, new) ==
    IF ~traversing THEN l
    ELSE IF l.ref # "live" THEN [l EXCEPT !.views = @ \cup {WordsOf(new)}]
    ELSE LET gone == { i \in 0..Len(l.cur) : SubSeq(l.cur, 1, i) \notin DOMAIN new }
             first == CHOOSE i \in gone : \A j \in gone : i <= j
         IN  IF gone = {} THEN [l EXCEPT !.views = @ \cup {WordsOf(new)}]
             ELSE IF first <= Len(l.base)
             THEN [l EXCEPT !.ref = "stale", !.held = Detached(l.base), !.cur = l.base,
                            !.views = @ \cup {WordsOf(new)}]
             ELSE [l EXCEPT !.cur = SubSeq(l.cur, 1, first - 1),
                            !.views = @ \cup {WordsOf(new)}]

FineReceiveAdd(p, words) ==
    ReceiveAdd(p, words) /\ loc' = [loc EXCEPT ![p] = NoLoc] /\ UNCHANGED muV1

FineReceiveList(p, prefix) ==
    ReceiveList(p, prefix) /\ loc' = [loc EXCEPT ![p] = NoLoc] /\ UNCHANGED muV1

FineReceiveDelete(p, word, bad) ==
    ReceiveDelete(p, word, bad) /\ loc' = [loc EXCEPT ![p] = NoLoc] /\ UNCHANGED muV1

FineReceiveExists(p, word) ==
    ReceiveExists(p, word) /\ loc' = [loc EXCEPT ![p] = NoLoc] /\ UNCHANGED muV1

\* AddWordsHandlerV1, trieV1.Insert(...): the pointer trieV1 is read.
FineAddLoad(p) ==
    /\ pc[p] = "add_loop"
    /\ idx[p] <= Len(req[p].words)
    /\ loc' = [loc EXCEPT ![p].ref = "live", ![p].resetDone = FALSE]
    /\ pc' = [pc EXCEPT ![p] = "add_lock"]
    /\ UNCHANGED <<trieV1, cacheV1, req, results, count, idx, resp, solo, prev, deleted, nReqs,
                   muV1>>

\* Insert's t.mu.Lock(), on the Trie the pointer refers to.
FineAddLock(p) ==
    /\ pc[p] = "add_lock"
    /\ IF loc[p].ref = "live"
       THEN CanLock(muV1) /\ muV1' = [muV1 EXCEPT !.w = p]
       ELSE UNCHANGED muV1
    /\ pc' = [pc EXCEPT ![p] = "add_insert"]
    /\ UNCHANGED <<trieV1, cacheV1, req, results, count, idx, resp, solo, prev, deleted, nReqs,
                   loc>>

\* Insert's body and its deferred Unlock, on the Trie the pointer refers to.
FineAddInsert(p) ==
    LET word == ToLower(req[p].words[idx[p]])
        new == Insert(trieV1, word)
    IN  /\ pc[p] = "add_insert"
        /\ IF loc[p].ref = "live"
           THEN /\ trieV1' = new
                /\ deleted' = deleted \ {word}
                /\ muV1' = [muV1 EXCEPT !.w = 0]
                /\ loc' = [q \in Slots |->
                             IF q = p THEN [loc[p] EXCEPT !.ref = "none"]
                             ELSE AfterWrite(loc[q], Traversing(q), new)]
           ELSE /\ loc' = [loc EXCEPT ![p].ref = "none", ![p].held = NewTrie,
                                      ![p].late = IF loc[p].resetDone
                                                  THEN @ \cup {word} ELSE @]
                /\ UNCHANGED <<trieV1, deleted, muV1>>
        /\ pc' = [pc EXCEPT ![p] = "add_flush"]
        /\ UNCHANGED <<cacheV1, req, results, count, idx, resp, solo, prev, nReqs>>

FineAddFlush(p) == AddFlush(p) /\ UNCHANGED fineVars

FineAddRespond(p) == AddRespond(p) /\ UNCHANGED fineVars

FineListHit(p) == ListHit(p) /\ UNCHANGED fineVars

FineListMiss(p) == ListMiss(p) /\ UNCHANGED fineVars

\* ListWordsHandlerV1: trieV1.Root is read, the prefix is walked, CollectWords
\* is called on the node the walk ended on and looks at its IsWord.
FineListStart(p) ==
    LET node == IF req[p].arg = EmptyStr THEN Root ELSE ListWalk(trieV1, Root, req[p].arg)
    IN  /\ pc[p] = "list_collect"
        /\ loc' = [loc EXCEPT ![p] = [NoLoc EXCEPT !.ref = "live", !.base = node, !.cur = node,
                                                  !.seen = {node},
                                                  !.views = {WordsOf(trieV1)}]]
        /\ results' = [results EXCEPT ![p] = IF trieV1[node] THEN <<req[p].arg>> ELSE <<>>]
        /\ pc' = [pc EXCEPT ![p] = "list_dfs"]
        /\ UNCHANGED <<trieV1, cacheV1, req, count, idx, resp, solo, prev, deleted, nReqs, muV1>>

\* The nodes on the way from the start of the traversal to the node it stands
\* on whose range loop has a child left to enter.
OpenFrames(p) ==
    { q \in { SubSeq(loc[p].cur, 1, i) : i \in Len(loc[p].base)..Len(loc[p].cur) } :
        \E c \in Children(TheTrie(p), q) : Append(q, c) \notin loc[p].seen }

\* The string CollectWords has as prefix when it is in node n.
WordAt(p, n) == req[p].arg \o SubSeq(n, Len(loc[p].base) + 1, Len(n))

\* CollectWords: the innermost range loop that has a child left enters one,
\* in any order, and appends its word if it is terminal.
FineListVisit(p) ==
    /\ pc[p] = "list_dfs"
    /\ OpenFrames(p) # {}
    /\ LET q == CHOOSE f \in OpenFrames(p) : \A g \in OpenFrames(p) : Len(g) <= Len(f)
       IN  \E c \in Children(TheTrie(p), q) :
              /\ Append(q, c) \notin loc[p].seen
              /\ loc' = [loc EXCEPT ![p].cur = Append(q, c), ![p].seen = @ \cup {Append(q, c)}]
              /\ results' = [results EXCEPT ![p] =
                               IF TheTrie(p)[Append(q, c)]
                               THEN Append(@, WordAt(p, Append(q, c))) ELSE @]
    /\ UNCHANGED <<trieV1, cacheV1, pc, req, count, idx, resp, solo, prev, deleted, nReqs, muV1>>

\* CollectWords returns: every range loop is at its end.  For a prefix,
\* count = len(results).
FineListDone(p) ==
    /\ pc[p] = "list_dfs"
    /\ OpenFrames(p) = {}
    /\ loc' = [loc EXCEPT ![p] = [NoLoc EXCEPT !.views = loc[p].views]]
    /\ IF req[p].arg = EmptyStr
       THEN pc' = [pc EXCEPT ![p] = "list_count"] /\ UNCHANGED count
       ELSE /\ pc' = [pc EXCEPT ![p] = "list_set"]
            /\ count' = [count EXCEPT ![p] = Len(results[p])]
    /\ UNCHANGED <<trieV1, cacheV1, req, results, idx, resp, solo, prev, deleted, nReqs, muV1>>

FineListCountAll(p) == ListCountAll(p) /\ UNCHANGED fineVars

FineListSet(p) == ListSet(p) /\ loc' = [loc EXCEPT ![p] = NoLoc] /\ UNCHANGED muV1

FineDeleteBadBody(p) == DeleteBadBody(p) /\ UNCHANGED fineVars

\* DeleteWordsHandlerV1, trieV1 = trie.NewTrie(): the pointer is assigned, no
\* mutex is taken; the handlers that have loaded the old pointer keep the old
\* Trie, and the new Trie has a mutex of its own.
FineClearAll(p) ==
    /\ DeleteClearAll(p)
    /\ muV1' = MuFree
    /\ loc' = [q \in Slots |->
                 LET l == [loc[q] EXCEPT !.late = {},
                                         !.views = IF Traversing(q)
                                                   THEN @ \cup {WordsOf(NewTrie)} ELSE @]
                 IN  IF q # p /\ l.ref = "live"
                     THEN [l EXCEPT !.ref = "stale", !.held = trieV1]
                     ELSE l]

\* cacheV1.Flush() and the response of the clear-all.
FineDeleteFlush(p) ==
    /\ DeleteFlush(p)
    /\ loc' = [q \in Slots |->
                 IF q # p /\ loc[q].ref = "stale" THEN [loc[q] EXCEPT !.resetDone = TRUE]
                 ELSE loc[q]]
    /\ UNCHANGED muV1

\* DeleteWordsHandlerV1, trieV1.Delete(request.Word): the pointer is read.
FineDeleteLoad(p) ==
    /\ pc[p] = "delete_decode"
    /\ ~req[p].bad
    /\ req[p].arg # EmptyStr
    /\ loc' = [loc EXCEPT ![p].ref = "live", ![p].resetDone = FALSE]
    /\ pc' = [pc EXCEPT ![p] = "delete_lock"]
    /\ UNCHANGED <<trieV1, cacheV1, req, results, count, idx, resp, solo, prev, deleted, nReqs,
                   muV1>>

\* Delete's t.mu.Lock().
FineDeleteLock(p) ==
    /\ pc[p] = "delete_lock"
    /\ IF loc[p].ref = "live"
       THEN CanLock(muV1) /\ muV1' = [muV1 EXCEPT !.w = p]
       ELSE UNCHANGED muV1
    /\ pc' = [pc EXCEPT ![p] = "delete_word"]
    /\ UNCHANGED <<trieV1, cacheV1, req, results, count, idx, resp, solo, prev, deleted, nReqs,
                   loc>>

\* Delete's body and its deferred Unlock; a panic ends the handler.
FineDeleteWord(p) ==
    LET d == Delete(TheTrie(p), req[p].arg)
    IN  /\ pc[p] = "delete_word"
        /\ IF loc[p].ref = "live"
           THEN /\ trieV1' = d.trie
                /\ deleted' = IF Exists(trieV1, req[p].arg) /\ ~d.panic
                              THEN deleted \cup { req[p].arg } ELSE deleted
                /\ muV1' = [muV1 EXCEPT !.w = 0]
                /\ loc' = [q \in Slots |->
                             IF q = p THEN [loc[p] EXCEPT !.ref = "none"]
                             ELSE [AfterWrite(loc[q], Traversing(q), d.trie)
                                      EXCEPT !.late = @ \ {req[p].arg}]]
           ELSE /\ loc' = [loc EXCEPT ![p].ref = "none", ![p].held = NewTrie]
                /\ UNCHANGED <<trieV1, deleted, muV1>>
        /\ IF d.panic
           THEN Respond(p, 0, <<>>, 0, FALSE, FALSE)
           ELSE /\ pc' = [pc EXCEPT ![p] = "delete_cache"]
                /\ UNCHANGED <<req, results, count, idx, resp, solo, prev, nReqs>>
        /\ UNCHANGED cacheV1

FineDeleteCacheKey(p) == DeleteCacheKey(p) /\ UNCHANGED fineVars

FineExistsMissingWord(p) == ExistsMissingWord(p) /\ UNCHANGED fineVars

\* WordsExistsHandlerV1, trieV1.Exists(word): the pointer is read.
FineExistsLoad(p) ==
    /\ pc[p] = "exists"
    /\ req[p].arg # EmptyStr
    /\ loc' = [loc EXCEPT ![p].ref = "live"]
    /\ pc' = [pc EXCEPT ![p] = "exists_lock"]
    /\ UNCHANGED <<trieV1, cacheV1, req, results, count, idx, resp, solo, prev, deleted, nReqs,
                   muV1>>

\* Exists: RLock, the walk, RUnlock; the response.
FineExistsCheck(p) ==
    /\ pc[p] = "exists_lock"
    /\ loc[p].ref = "live" => CanRLock(muV1)
    /\ Respond(p, 200, <<>>, 0, Exists(TheTrie(p), req[p].arg), FALSE)
    /\ loc' = [loc EXCEPT ![p] = NoLoc]
    /\ UNCHANGED <<trieV1, cacheV1, deleted, muV1>>

FineExpire(k) == Expire(k) /\ UNCHANGED fineVars

FineNext ==
    \/ \E p \in Slots, words \in FineBodies : FineReceiveAdd(p, words) /\ UNCHANGED notFine
    \/ \E p \in Slots, prefix \in FineWords : FineReceiveList(p, prefix) /\ UNCHANGED notFine
    \/ \E p \in Slots, word \in FineWords, bad \in BOOLEAN :
          FineReceiveDelete(p, word, bad) /\ UNCHANGED notFine
    \/ \E p \in Slots, word \in FineWords : FineReceiveExists(p, word) /\ UNCHANGED notFine
    \/ \E p \in Slots : FineAddLoad(p) /\ UNCHANGED notFine
    \/ \E p \in Slots : FineAddLock(p) /\ UNCHANGED notFine
    \/ \E p \in Slots : FineAddInsert(p) /\ UNCHANGED notFine
    \/ \E p \in Slots : FineAddFlush(p) /\ UNCHANGED notFine
    \/ \E p \in Slots : FineAddRespond(p) /\ UNCHANGED notFine
    \/ \E p \in Slots : FineListHit(p) /\ UNCHANGED notFine
    \/ \E p \in Slots : FineListMiss(p) /\ UNCHANGED notFine
    \/ \E p \in Slots : FineListStart(p) /\ UNCHANGED notFine
    \/ \E p \in Slots : FineListVisit(p) /\ UNCHANGED notFine
    \/ \E p \in Slots : FineListDone(p) /\ UNCHANGED notFine
    \/ \E p \in Slots : FineListCountAll(p) /\ UNCHANGED notFine
    \/ \E p \in Slots : FineListSet(p) /\ UNCHANGED notFine
    \/ \E p \in Slots : FineDeleteBadBody(p) /\ UNCHANGED notFine
    \/ \E p \in Slots : FineClearAll(p) /\ UNCHANGED notFine
    \/ \E p \in Slots : FineDeleteFlush(p) /\ UNCHANGED notFine
    \/ \E p \in Slots : FineDeleteLoad(p) /\ UNCHANGED notFine
    \/ \E p \in Slots : FineDeleteLock(p) /\ UNCHANGED notFine
    \/ \E p \in Slots : FineDeleteWord(p) /\ UNCHANGED notFine
    \/ \E p \in Slots : FineDeleteCacheKey(p) /\ UNCHANGED notFine
    \/ \E p \in Slots : FineExistsMissingWord(p) /\ UNCHANGED notFine
    \/ \E p \in Slots : FineExistsLoad(p) /\ UNCHANGED notFine
    \/ \E p \in Slots : FineExistsCheck(p) /\ UNCHANGED notFine
    \/ \E k \in FineWords : FineExpire(k) /\ UNCHANGED notFine

SpecFine == Init /\ [][FineNext]_vars

(***************************************************************************)
(* Properties of the request handlers                                      *)
(***************************************************************************)
IsList == resp.req.kind = "list" /\ resp.status = 200

\* C3 as claimed: a list request with a non-empty prefix that has a code point
\* without a path in the index, computed from the index (no cache hit), answers
\* with empty data and count 0.
ListMissingPrefixIsEmpty ==
    ( /\ IsList /\ ~resp.hit
      /\ resp.req.arg # EmptyStr
      /\ \E k \in 1..Len(resp.req.arg) : SubSeq(resp.req.arg, 1, k) \notin DOMAIN trieV1 )
        => (resp.data = <<>> /\ resp.count = 0)

\* C4 as claimed: once a delete request for a stored word w has returned, a
\* list request for a prefix of w that is answered from the cache does not list w.
DeletedWordNotServedFromCache ==
    (IsList /\ resp.hit)
        => \A w \in deleted : IsPrefix(resp.req.arg, w) => w \notin Range(resp.data)

\* C5 as claimed, for the writes that add words: a list request that overlapped
\* no other request (so every write before it had returned) lists every stored
\* word that has its prefix.
ListObservesReturnedWrites ==
    (IsList /\ resp.solo)
        => \A w \in WordsOf(trieV1) : IsPrefix(resp.req.arg, w) => w \in Range(resp.data)

IsAddOf(r) == r.kind = "add"

IsClearAll(r) == r.kind = "delete" /\ ~r.bad /\ r.arg = EmptyStr

\* C6 as claimed: when an add request or a clear-all delete request returns,
\* having overlapped no other request, the cache holds no entry.
CacheEmptyWhenWriteReturns ==
    (resp.solo /\ (IsAddOf(resp.req) \/ IsClearAll(resp.req)))
        => DOMAIN cacheV1 = {}

\* C6 amended: when an add request that carries at least one word, or a
\* clear-all delete request, returns, having overlapped no other request, the
\* cache holds no entry.
CacheEmptyWhenInsertingWriteReturns ==
    (resp.solo /\ ((IsAddOf(resp.req) /\ resp.req.words # <<>>) \/ IsClearAll(resp.req)))
        => DOMAIN cacheV1 = {}

\* C6 witness: after earlier requests, an add request of two words has
\* returned alone and the cache is empty.
CacheEmptyWhenInsertingWriteReturnsWitness ==
    /\ resp.solo /\ IsAddOf(resp.req) /\ Len(resp.req.words) = 2
    /\ nReqs >= 3 /\ prev # NoReq
    /\ DOMAIN cacheV1 = {}

\* C7 as claimed: an existence check answers true for every case variant of a
\* stored word and false for every other string.
ExistsIgnoresCase ==
    (resp.req.kind = "exists" /\ resp.status = 200)
        => (resp.exists <=> ToLower(resp.req.arg) \in WordsOf(trieV1))

\* C8 as claimed: an add request with W followed by a delete request with the
\* same W leaves the word the add stored absent from the index.
DeleteUndoesAdd ==
    ( /\ resp.req.kind = "delete" /\ resp.status = 200 /\ resp.req.arg # EmptyStr
      /\ prev.kind = "add" /\ resp.req.arg \in Range(prev.words) )
        => ToLower(resp.req.arg) \notin WordsOf(trieV1)

RECURSIVE LexLeq(_, _)
\* a <= b in lexicographic order (code point order is Go's byte order of
\* UTF-8 strings).
LexLeq(a, b) ==
    IF a = <<>> THEN TRUE
    ELSE IF b = <<>> THEN FALSE
    ELSE IF Head(a) # Head(b) THEN Head(a) < Head(b)
    ELSE LexLeq(Tail(a), Tail(b))

Sorted(s) == \A i \in 1..(Len(s) - 1) : LexLeq(s[i], s[i + 1])

\* C9 as claimed: the data of a list response computed from the index is in
\* lexicographic order (stated for the prefixes that have a path in the index,
\* the empty prefix included, where data holds the stored words only).
ListDataSorted ==
    (IsList /\ ~resp.hit /\ resp.req.arg \in DOMAIN trieV1) => Sorted(resp.data)

(***************************************************************************)
(* Properties of the index: the empty word, idempotence, frame of Delete   *)
(***************************************************************************)
\* C11 as claimed: Insert("") stores nothing: in every index state the root
\* is not terminal, Exists("") is false, no slice CollectWords can return from
\* the root lists the empty string and CountWords counts the other words only.
EmptyWordNeverStored ==
    /\ ~t[Root]
    /\ ~Exists(t, EmptyStr)
    /\ \A r \in CollectWords(t, Root, EmptyStr) : EmptyStr \notin Range(r)
    /\ CountWords(t, Root) = Cardinality(WordsOf(t) \ {EmptyStr})

\* C12: Insert(w) on an index that stores w changes no node and no terminal
\* flag, for the Insert of trie.go and the Insert of the Search variant; after
\* such a call every Exists and every Search result is what it was before,
\* and no slice Search can return lists w twice.
InsertIdempotent ==
    /\ \A w \in WordsOf(t) : Insert(t, w) = t /\ InsertNonEmpty(t, w) = t
    /\ (last.op = "Insert" /\ last.word \in WordsOf(last.before))
          => /\ t = last.before
             /\ \A v \in LibWords \cup TestWords : Exists(t, v) = Exists(last.before, v)
             /\ \A p \in SearchPrefixes :
                   /\ Search(t, p) = Search(last.before, p)
                   /\ IsPrefix(p, last.word) =>
                         \A r \in Search(t, p) :
                             Cardinality({ i \in 1..Len(r) : r[i] = last.word }) <= 1

\* C12 witness: "ab" was inserted again while "a", which it extends, and
\* "aba", which extends it, are stored.
InsertIdempotentWitness ==
    /\ last.op = "Insert" /\ last.word = <<97, 98>>
    /\ <<97, 98>> \in WordsOf(last.before)
    /\ { <<97>>, <<97, 98, 97>> } \subseteq WordsOf(t)

(***************************************************************************)
(* Properties of the request handlers: listing without a prefix            *)
(***************************************************************************)
\* C13: a list request with an empty prefix that is computed from the index
\* (cache miss) and overlapped no other request answers with data that holds
\* every word the index stores exactly once, and with a count equal to the
\* number of stored words.
ListAllReturnsEveryWord ==
    (IsList /\ ~resp.hit /\ resp.solo /\ resp.req.arg = EmptyStr)
        => /\ Range(resp.data) = WordsOf(trieV1)
           /\ NoDuplicates(resp.data)
           /\ resp.count = Cardinality(WordsOf(trieV1))

\* C13 witness: after add and delete requests, a list request without prefix
\* was computed from an index of two words.
ListAllReturnsEveryWordWitness ==
    /\ IsList /\ ~resp.hit /\ resp.solo /\ resp.req.arg = EmptyStr
    /\ Len(resp.data) = 2 /\ resp.count = 2
    /\ deleted # {}

(***************************************************************************)
(* Properties of the Search variant: the empty prefix                      *)
(***************************************************************************)
\* C14: in every index state, also right after Insert("") and with words
\* stored, Search("") can return the empty slice only, and a Search("") call
\* has returned it.
SearchEmptyPrefixIsEmpty ==
    /\ Search(t, EmptyStr) = { <<>> }
    /\ (last.op = "Search" /\ last.word = EmptyStr) => last.data = <<>>

\* C14 witness: Search("") has returned the empty slice while the eight words
\* of the test are stored.
SearchEmptyPrefixIsEmptyWitness ==
    /\ last.op = "Search" /\ last.word = EmptyStr /\ last.data = <<>>
    /\ present = TestWords \ {EmptyStr}

(***************************************************************************)
(* Properties of the index: what Delete prunes and what it leaves          *)
(***************************************************************************)
\* C18 as claimed: after any sequence of Insert and Delete calls every node
\* other than the root that has no children is terminal.
NoDeadLeaves ==
    \A n \in DOMAIN t : (n # Root /\ Children(t, n) = {}) => t[n]

\* The nodes the last call removed from the index.
Removed == DOMAIN last.before \ DOMAIN t

\* C19: a Delete(w) call on an index that stores w makes Exists(w) false and
\* leaves Exists(v) as it was for every other word v; every node it removed
\* was, when removed, not terminal (the node of w after its flag was cleared,
\* or a node that was no word's end) and without children (each of its
\* children was removed as well).
DeleteChangesOnlyItsWord ==
    (last.op = "Delete" /\ Exists(last.before, last.word))
        => /\ ~Exists(t, last.word)
           /\ \A v \in LibWords \ {last.word} : Exists(t, v) = Exists(last.before, v)
           /\ \A n \in DOMAIN t : n # last.word => t[n] = last.before[n]
           /\ \A n \in Removed :
                 /\ n = last.word \/ ~last.before[n]
                 /\ \A c \in Children(last.before, n) : Append(n, c) \in Removed

\* C19 witness: Delete("ab") removed the leaf of "ab" while "a", which it
\* extends, and its sibling "aa" stay stored.
DeleteChangesOnlyItsWordWitness ==
    /\ last.op = "Delete" /\ last.word = <<97, 98>> /\ last.ret = "ok"
    /\ Exists(last.before, <<97, 98>>)
    /\ Removed = { <<97, 98>> }
    /\ { <<97>>, <<97, 97>> } \subseteq WordsOf(t)

\* C20 as claimed: a Delete(w) call with w empty, or with w not stored (path
\* missing, or final node not terminal), leaves every node and every terminal
\* flag as it was.
DeleteOfAbsentWordChangesNothing ==
    (last.op = "Delete" /\ (last.word = EmptyStr \/ ~Exists(last.before, last.word)))
        => t = last.before

\* C21 as claimed: a Delete(w) call on an index that stores w, whatever the
\* byte length of w, returns normally with Exists(w) false; the nodes it
\* removed lie on the code-point path of w, and no node it left on that path,
\* the root apart, is both childless and not terminal.
DeleteNeverFails ==
    (last.op = "Delete" /\ Exists(last.before, last.word))
        => /\ last.ret = "ok"
           /\ ~Exists(t, last.word)
           /\ \A n \in Removed : IsPrefix(n, last.word)
           /\ \A i \in 1..Len(last.word) :
                 LET n == SubSeq(last.word, 1, i)
                 IN  (n \in DOMAIN t /\ Children(t, n) = {}) => t[n]

(***************************************************************************)
(* Properties of the request handlers under concurrent requests            *)
(***************************************************************************)
\* C15 as claimed: while a list request is inside its enumeration of the
\* index no add or delete request is between Lock and Unlock on the same Trie,
\* and the data of a list request without prefix is the word set the index
\* had in one of the states it went through during the enumeration.
EnumerationExcludesWriters ==
    /\ \A p, q \in Slots :
          (Traversing(p) /\ loc[p].ref = "live") => ~(WriterInside(q) /\ loc[q].ref = "live")
    /\ \A p \in Slots :
          (pc[p] \in {"list_count", "list_set"} /\ req[p].arg = EmptyStr /\ loc[p].views # {})
              => Range(results[p]) \in loc[p].views

\* C16 as claimed, for the words an add request inserts after the clear-all
\* request it overlapped has returned: when the add request has returned,
\* with no delete request for the word and no clear-all since, the word is
\* stored in the Trie trieV1 points to, which later requests read.
AddAfterResetIsStored ==
    \A p \in Slots : pc[p] = "idle" => loc[p].late \subseteq WordsOf(trieV1)

\* C22 as claimed: in every list response, from the cache or computed from the
\* index, alone or while add and delete requests run, count is the number of
\* words in data.
ListCountIsLenOfData ==
    IsList => resp.count = Len(resp.data)

(***************************************************************************)
(* cmd/server/main.go and internal/middleware: the router, the rate        *)
(* limiter and the JWT check in front of the handlers.  A middleware reads *)
(* the request and the limiter only, so the chain from the router to the   *)
(* start of the handler is one step; the handler then runs as in SpecSeq.  *)
(* conn keeps the request and its answer until the connection is closed.   *)
(* LoggingMiddleware, which main.go installs first, logs and calls next.   *)
(***************************************************************************)
notWeb == <<libVars, conVars, fineVars>>

\* main.go: SECRET_KEY, handed to middleware.SetSecretKey and handlers.SetSecretKey.
secretKey == "secret"

\* The signing methods golang-jwt registers that are *jwt.SigningMethodHMAC.
SigningMethodHMAC == {"HS256", "HS384"}

\* What LoginHandler signs: HS256, the secret key, exp a day ahead.
LoginToken == [form |-> "jwt", alg |-> "HS256", sig |-> secretKey, exp |-> "future"]

\* The token strings requests carry: no JWT at all; the token of a login, the
\* same expired, the same signed with another key; an HS384 token without exp;
\* an unsigned token (alg none); a token signed with an RSA key.
Tokens == { [form |-> "garbage", alg |-> "", sig |-> "", exp |-> ""],
            LoginToken,
            [form |-> "jwt", alg |-> "HS256", sig |-> secretKey, exp |-> "past"],
            [form |-> "jwt", alg |-> "HS256", sig |-> "other", exp |-> "future"],
            [form |-> "jwt", alg |-> "HS384", sig |-> secretKey, exp |-> "absent"],
            [form |-> "jwt", alg |-> "none", sig |-> "", exp |-> "future"],
            [form |-> "jwt", alg |-> "RS256", sig |-> "rsa", exp |-> "future"] }

\* The Authorization headers: absent, "Bearer " and a token or nothing, and a
\* good token bare and after "bearer " in lower case.
Headers ==
    {NoHeader}
        \cup { [scheme |-> "Bearer ", token |-> k] : k \in Tokens \cup {NoToken} }
        \cup { [scheme |-> "", token |-> LoginToken] }
        \cup { [scheme |-> "bearer ", token |-> LoginToken] }

\* The words and bodies of the requests behind the router: "", "a".
AuthWords == { <<>>, <<97>> }

AuthBodies == { <<>>, << <<97>> >>, << <<>>, <<97>> >> }

Methods == {"GET", "POST", "DELETE"}

Paths == {"/api/login", "/api/v1/", "/api/v1/words", "/api/v1/words/exists", "/api/v1/login"}

\* main.go: the routes; jwt tells the routes of the subrouter v1, which uses
\* JwtMiddleware.
Routes ==
    { [method |-> "POST", path |-> "/api/login", handler |-> "LoginHandler", jwt |-> FALSE],
      [method |-> "GET", path |-> "/api/v1/", handler |-> "RootHandler", jwt |-> TRUE],
      [method |-> "POST", path |-> "/api/v1/words", handler |-> "AddWordsHandlerV1",
       jwt |-> TRUE],
      [method |-> "GET", path |-> "/api/v1/words", handler |-> "ListWordsHandlerV1",
       jwt |-> TRUE],
      [method |-> "DELETE", path |-> "/api/v1/words", handler |-> "DeleteWordsHandlerV1",
       jwt |-> TRUE],
      [method |-> "GET", path |-> "/api/v1/words/exists", handler |-> "WordsExistsHandlerV1",
       jwt |-> TRUE] }

\* mux.Router: the route whose path and method match; without one the router
\* answers 405 when a path matched and 404 otherwise, and runs no middleware.
Route(method, path) ==
    IF \E r \in Routes : r.method = method /\ r.path = path
    THEN CHOOSE r \in Routes : r.method = method /\ r.path = path
    ELSE [method |-> method, path |-> path,
          handler |-> IF \E r \in Routes : r.path = path THEN "MethodNotAllowed"
                      ELSE "NotFound",
          jwt |-> FALSE]

\* strings.TrimPrefix(tokenString, "Bearer ").
TrimPrefix(header) ==
    IF header.scheme = "Bearer " THEN [header EXCEPT !.scheme = ""] ELSE header

\* The key function JwtMiddleware hands to jwt.Parse.
Keyfunc(token) ==
    IF token.alg \in SigningMethodHMAC THEN [key |-> secretKey, err |-> ""]
    ELSE [key |-> "", err |-> "unexpected signing method"]

\* token.Method.Verify: an HMAC signature is the one made with the key; the
\* other methods do not verify with a byte-slice key.
Verify(token, key) ==
    token.alg \in SigningMethodHMAC /\ token.sig = key

\* jwt.Parse with Keyfunc: three decodable segments, the key from the key function, the
\* claims (exp, when present, lies ahead), the signature.  Valid is set
\* exactly when no error is returned.
JwtParse(tokenString) ==
    LET token == tokenString.token
        err == IF tokenString.scheme # "" \/ token.form # "jwt" THEN "malformed"
               ELSE IF Keyfunc(token).err # "" THEN "unverifiable"
               ELSE IF token.exp = "past" THEN "expired"
               ELSE IF ~Verify(token, Keyfunc(token).key) THEN "signature invalid"
               ELSE ""
    IN  [err |-> err, valid |-> err = ""]

\* JwtMiddleware with the missing-token check alone: the parse error and
\* token.Valid are not looked at.
JwtMiddlewareMissingOnly(header) ==
    IF header = NoHeader THEN 401 ELSE 0

\* JwtMiddleware: 401 when it answers itself, 0 when it calls next.
JwtMiddleware(header) ==
    IF header = NoHeader THEN 401
    ELSE LET parsed == JwtParse(TrimPrefix(header))
         IN  IF parsed.err # "" THEN 401
             ELSE IF ~parsed.valid THEN 401
             ELSE 0

\* Who answers a request: the router itself, RateLimitMiddleware (installed on
\* the router, so ahead of the subrouter's JwtMiddleware), JwtMiddleware, or
\* the route's handler.
Answerer(method, path, header) ==
    LET r == Route(method, path)
    IN  IF r.handler \in {"NotFound", "MethodNotAllowed"} THEN r.handler
        ELSE IF limiter = 0 THEN "RateLimitMiddleware"
        ELSE IF r.jwt /\ JwtMiddleware(header) = 401 THEN "JwtMiddleware"
        ELSE r.handler

Serve(method, path, header, status, by, issued) ==
    conn' = [method |-> method, path |-> path, header |-> header, status |-> status,
             by |-> by, allowed |-> limiter > 0, before |-> <<trieV1, cacheV1>>,
             issued |-> issued]

\* Number of requests that reach a handler of v1.go in one run.
MaxServed == 3

\* No handler is running and the last connection is closed.
RouterFree == AllIdle /\ conn = NoConn

\* No route matches: 404 or 405 from the router.
ServeNoRoute(method, path, header) ==
    /\ Answerer(method, path, header) \in {"NotFound", "MethodNotAllowed"}
    /\ Serve(method, path, header,
             IF Answerer(method, path, header) = "NotFound" THEN 404 ELSE 405,
             Answerer(method, path, header), NoToken)
    /\ UNCHANGED <<limiter, srvVars>>

\* RateLimitMiddleware, limiter.Allow() is false: 429.
ServeTooMany(method, path, header) ==
    /\ Answerer(method, path, header) = "RateLimitMiddleware"
    /\ Serve(method, path, header, 429, "RateLimitMiddleware", NoToken)
    /\ UNCHANGED <<limiter, srvVars>>

\* limiter.Allow() takes a token; JwtMiddleware answers 401.
ServeUnauthorized(method, path, header) ==
    /\ Answerer(method, path, header) = "JwtMiddleware"
    /\ limiter' = limiter - 1
    /\ Serve(method, path, header, 401, "JwtMiddleware", NoToken)
    /\ UNCHANGED srvVars

\* LoginHandler: 400 for an undecodable body, 401 for other credentials than
\* user1's, else 200 with a token.
ServeLogin(method, path, header, creds) ==
    /\ Answerer(method, path, header) = "LoginHandler"
    /\ limiter' = limiter - 1
    /\ Serve(method, path, header,
             IF creds = "undecodable" THEN 400 ELSE IF creds = "wrong" THEN 401 ELSE 200,
             "LoginHandler", IF creds = "user1" THEN LoginToken ELSE NoToken)
    /\ UNCHANGED srvVars

\* RootHandler: the overview of the API.
ServeRoot(method, path, header) ==
    /\ Answerer(method, path, header) = "RootHandler"
    /\ limiter' = limiter - 1
    /\ Serve(method, path, header, 200, "RootHandler", NoToken)
    /\ UNCHANGED srvVars

\* The chain calls a handler of v1.go, which starts.
ServeAdd(p, method, path, header, words) ==
    /\ Answerer(method, path, header) = "AddWordsHandlerV1"
    /\ limiter' = limiter - 1
    /\ Serve(method, path, header, 0, "AddWordsHandlerV1", NoToken)
    /\ nReqs < MaxServed
    /\ ReceiveAdd(p, words)

ServeList(p, method, path, header, prefix) ==
    /\ Answerer(method, path, header) = "ListWordsHandlerV1"
    /\ limiter' = limiter - 1
    /\ Serve(method, path, header, 0, "ListWordsHandlerV1", NoToken)
    /\ nReqs < MaxServed
    /\ ReceiveList(p, prefix)

ServeDelete(p, method, path, header, word, bad) ==
    /\ Answerer(method, path, header) = "DeleteWordsHandlerV1"
    /\ limiter' = limiter - 1
    /\ Serve(method, path, header, 0, "DeleteWordsHandlerV1", NoToken)
    /\ nReqs < MaxServed
    /\ ReceiveDelete(p, word, bad)

ServeExists(p, method, path, header, word) ==
    /\ Answerer(method, path, header) = "WordsExistsHandlerV1"
    /\ limiter' = limiter - 1
    /\ Serve(method, path, header, 0, "WordsExistsHandlerV1", NoToken)
    /\ nReqs < MaxServed
    /\ ReceiveExists(p, word)

\* The response has gone out and the connection is closed.
Close ==
    /\ AllIdle /\ conn # NoConn
    /\ conn' = NoConn
    /\ UNCHANGED <<limiter, srvVars>>

\* A second passes: the limiter gains a token, up to its burst.
Tick ==
    /\ limiter < Burst
    /\ limiter' = limiter + 1
    /\ UNCHANGED <<conn, srvVars>>

\* The server behind its router, one request at a time.
AuthNext ==
    \/ RouterFree /\ \E method \in Methods, path \in Paths, header \in Headers :
          ServeNoRoute(method, path, header) /\ UNCHANGED notWeb
    \/ RouterFree /\ \E method \in Methods, path \in Paths, header \in Headers :
          ServeTooMany(method, path, header) /\ UNCHANGED notWeb
    \/ RouterFree /\ \E method \in Methods, path \in Paths, header \in Headers :
          ServeUnauthorized(method, path, header) /\ UNCHANGED notWeb
    \/ RouterFree /\ \E method \in Methods, path \in Paths, header \in Headers,
          creds \in {"undecodable", "wrong", "user1"} :
          ServeLogin(method, path, header, creds) /\ UNCHANGED notWeb
    \/ RouterFree /\ \E method \in Methods, path \in Paths, header \in Headers :
          ServeRoot(method, path, header) /\ UNCHANGED notWeb
    \/ RouterFree /\ \E p \in Slots, method \in Methods, path \in Paths, header \in Headers,
          words \in AuthBodies :
          ServeAdd(p, method, path, header, words) /\ UNCHANGED notWeb
    \/ RouterFree /\ \E p \in Slots, method \in Methods, path \in Paths, header \in Headers,
          prefix \in AuthWords :
          ServeList(p, method, path, header, prefix) /\ UNCHANGED notWeb
    \/ RouterFree /\ \E p \in Slots, method \in Methods, path \in Paths, header \in Headers,
          word \in AuthWords, bad \in BOOLEAN :
          ServeDelete(p, method, path, header, word, bad) /\ UNCHANGED notWeb
    \/ RouterFree /\ \E p \in Slots, method \in Methods, path \in Paths, header \in Headers,
          word \in AuthWords :
          ServeExists(p, method, path, header, word) /\ UNCHANGED notWeb
    \/ Close /\ UNCHANGED notWeb
    \/ Tick /\ UNCHANGED notWeb
    \/ \E p \in Slots : AddInsert(p) /\ UNCHANGED notSrv
    \/ \E p \in Slots : AddFlush(p) /\ UNCHANGED notSrv
    \/ \E p \in Slots : AddRespond(p) /\ UNCHANGED notSrv
    \/ \E p \in Slots : ListHit(p) /\ UNCHANGED notSrv
    \/ \E p \in Slots : ListMiss(p) /\ UNCHANGED notSrv
    \/ \E p \in Slots : ListCollectAll(p) /\ UNCHANGED notSrv
    \/ \E p \in Slots : ListCountAll(p) /\ UNCHANGED notSrv
    \/ \E p \in Slots : ListCollectPrefix(p) /\ UNCHANGED notSrv
    \/ \E p \in Slots : ListSet(p) /\ UNCHANGED notSrv
    \/ \E p \in Slots : DeleteBadBody(p) /\ UNCHANGED notSrv
    \/ \E p \in Slots : DeleteClearAll(p) /\ UNCHANGED notSrv
    \/ \E p \in Slots : DeleteFlush(p) /\ UNCHANGED notSrv
    \/ \E p \in Slots : DeleteWord(p) /\ UNCHANGED notSrv
    \/ \E p \in Slots : DeleteCacheKey(p) /\ UNCHANGED notSrv
    \/ \E p \in Slots : ExistsMissingWord(p) /\ UNCHANGED notSrv
    \/ \E p \in Slots : ExistsCheck(p) /\ UNCHANGED notSrv

SpecAuth == Init /\ [][AuthNext]_vars

(***************************************************************************)
(* Properties of the router and the middleware                             *)
(***************************************************************************)
\* The Authorization header holds, bare or after "Bearer ", a JWT of an HMAC
\* signing method, signed with the configured secret and not expired.
Authentic(header) ==
    /\ header.scheme \in {"", "Bearer "}
    /\ header.token.form = "jwt"
    /\ header.token.alg \in SigningMethodHMAC
    /\ header.token.sig = secretKey
    /\ header.token.exp # "past"

V1Handlers == { r.handler : r \in { q \in Routes : q.jwt } }

\* C23 as claimed: a request that matches an /api/v1 route reaches its handler
\* only with an authentic token; with a missing or invalid token its answer is
\* 401 and the index and the cache are what they were; a request to /api/login
\* is answered by LoginHandler whatever its Authorization header.
TokenRequiredForV1 ==
    LET r == Route(conn.method, conn.path)
    IN  /\ (\E p \in Slots : pc[p] # "idle") => (r.jwt /\ conn.by = r.handler)
        /\ conn.by \in V1Handlers => (r.jwt /\ Authentic(conn.header))
        /\ (r.jwt /\ ~Authentic(conn.header))
              => /\ conn.status = 401
                 /\ <<trieV1, cacheV1>> = conn.before
                 /\ AllIdle
        /\ (r.handler = "LoginHandler" /\ conn.allowed) => conn.by = "LoginHandler"

\* C23 as amended: as above, but the answer to a missing or invalid token is
\* 401 from JwtMiddleware only when the rate limiter had a token for the
\* request, and 429 from RateLimitMiddleware when it had none.
TokenRequiredForV1WithinRate ==
    LET r == Route(conn.method, conn.path)
    IN  /\ (\E p \in Slots : pc[p] # "idle") => (r.jwt /\ conn.by = r.handler)
        /\ conn.by \in V1Handlers => (r.jwt /\ Authentic(conn.header))
        /\ (r.jwt /\ ~Authentic(conn.header))
              => /\ conn.status = IF conn.allowed THEN 401 ELSE 429
                 /\ conn.by = IF conn.allowed THEN "JwtMiddleware"
                              ELSE "RateLimitMiddleware"
                 /\ <<trieV1, cacheV1>> = conn.before
                 /\ AllIdle
        /\ (r.handler = "LoginHandler" /\ conn.allowed) => conn.by = "LoginHandler"

\* A request for the words with an unsigned token (alg none) was answered 401
\* while the index and the cache held words.
TokenRequiredForV1WithinRateWitness ==
    /\ conn.by = "JwtMiddleware"
    /\ conn.status = 401
    /\ conn.path = "/api/v1/words"
    /\ conn.header.token.alg = "none"
    /\ WordsOf(trieV1) # {}
    /\ cacheV1 # <<>>

====
